---- MODULE Spec2Model ----
(***************************************************************************)
(* landlab/values/synthetic.py: generators that add synthetic values to a *)
(* named field of a model grid, restricted by element status.             *)
(*                                                                         *)
(* Numbers are exact rationals <<numerator, denominator>> (denominator    *)
(* > 0, lowest terms); numpy's float rounding is outside the model.       *)
(* Arrays are sequences, element id i of the code is index i + 1.         *)
(* The `at` argument is one of the interned literals the callers pass, so *)
(* `at is "node"` is modelled as equality of kinds.                       *)
(***************************************************************************)
EXTENDS Integers, Sequences, FiniteSets, TLC

VARIABLES
    grid,       \* the ModelGrid the generators are called on (fixed)
    store,      \* grid[at][name]: <<at, name>> -> array, for the fields that exist
    before,     \* history: the field store when the last call started
    call,       \* history: the last call's function and arguments
    result,     \* history: how the last call ended and what it returned
    expected,   \* history: per field, the sum of the values the calls computed inside their masks
    prior,      \* history: the constant call right before the last one, and the store it started from
    ncalls      \* number of calls made

vars == <<grid, store, before, call, result, expected, prior, ncalls>>

\* Bound on the number of calls in one behaviour.
MaxCalls == 2

-----------------------------------------------------------------------------
(* Exact arithmetic standing for numpy's arithmetic on float arrays.       *)

Abs(n) == IF n < 0 THEN -n ELSE n

RECURSIVE Gcd(_, _)
Gcd(a, b) == IF b = 0 THEN a ELSE Gcd(b, a % b)

Rat(n, d) ==
    LET s == IF d < 0 THEN -1 ELSE 1
        g == Gcd(Abs(n), Abs(d))
    IN  <<(s * n) \div g, (s * d) \div g>>

Num(n) == <<n, 1>>
Zero == Num(0)
One == Num(1)

RAdd(a, b) == Rat(a[1] * b[2] + b[1] * a[2], a[2] * b[2])
RSub(a, b) == Rat(a[1] * b[2] - b[1] * a[2], a[2] * b[2])
RMul(a, b) == Rat(a[1] * b[1], a[2] * b[2])
RDiv(a, b) == Rat(a[1] * b[2], a[2] * b[1])

\* np.isclose(a, 0): |a| <= atol, atol = 1e-8 (rtol * |0| = 0).
IsCloseZero(a) == a[1] = 0 \/ (a[2] \div Abs(a[1])) >= 100000000

\* np.zeros(n), np.ones(n), np.zeros(n, dtype=bool), np.ones(n, dtype=bool)
Zeros(n) == [i \in 1..n |-> Zero]
Ones(n) == [i \in 1..n |-> One]
AllFalse(n) == [i \in 1..n |-> FALSE]
AllTrue(n) == [i \in 1..n |-> TRUE]

\* np.sum(where): the number of True entries.
CountTrue(where) == Cardinality({i \in 1..Len(where) : where[i]})

\* The rank of position i among the True entries of where: values[where] and
\* field[where] pair the k-th selected position with the k-th right-hand value.
Rank(where, i) == Cardinality({j \in 1..i : where[j]})

-----------------------------------------------------------------------------
(* The grid: element counts, status codes and coordinates per element kind.*)

Kinds == {"node", "link", "cell", "face", "patch"}

\* A three-node network: boundary - core - boundary, two links, and one
\* cell / face / patch around the core node.
SmallGrid ==
    [size   |-> [node |-> 3, link |-> 2, cell |-> 1, face |-> 1, patch |-> 1],
     status |-> [node |-> <<1, 0, 1>>, link |-> <<0, 4>>],
     x      |-> [node |-> <<Num(0), Num(1), Num(1)>>,
                 link |-> <<Rat(1, 2), Num(1)>>,
                 cell |-> <<Num(1)>>,
                 face |-> <<Rat(1, 2)>>],
     y      |-> [node |-> <<Num(0), Num(0), Num(2)>>,
                 link |-> <<Num(0), Num(1)>>,
                 cell |-> <<Num(0)>>,
                 face |-> <<Rat(1, 2)>>]]

\* RasterModelGrid((4, 4)) of the docstrings, unit spacing: node row * 4 + col
\* sits at (col, row); the perimeter nodes are boundaries (status 1), the rest
\* core (0). Row by row come 3 horizontal links, then the 4 vertical links to
\* the next row; a link is active (0) when it touches a core node, else
\* inactive (4). Faces cross the active links, cells sit on the core nodes.
RasterRows == 4
RasterCols == 4

RasterNodes == RasterRows * RasterCols
LinksPerRow == 2 * RasterCols - 1
RasterLinks == RasterRows * (RasterCols - 1) + (RasterRows - 1) * RasterCols

NodeCol(k) == (k - 1) % RasterCols
NodeRow(k) == (k - 1) \div RasterCols
OnEdge(r, c) == r = 0 \/ c = 0 \/ r = RasterRows - 1 \/ c = RasterCols - 1

LinkRow(k) == (k - 1) \div LinksPerRow
LinkPos(k) == (k - 1) % LinksPerRow
IsHorizontal(k) == LinkPos(k) < RasterCols - 1
LinkCol(k) == IF IsHorizontal(k) THEN LinkPos(k) ELSE LinkPos(k) - (RasterCols - 1)
LinkActive(k) ==
    IF IsHorizontal(k) THEN LinkRow(k) \notin {0, RasterRows - 1}
    ELSE LinkCol(k) \notin {0, RasterCols - 1}
LinkX(k) == IF IsHorizontal(k) THEN Rat(2 * LinkCol(k) + 1, 2) ELSE Num(LinkCol(k))
LinkY(k) == IF IsHorizontal(k) THEN Num(LinkRow(k)) ELSE Rat(2 * LinkRow(k) + 1, 2)

CoreNodes == SelectSeq([k \in 1..RasterNodes |-> k],
                       LAMBDA k : ~OnEdge(NodeRow(k), NodeCol(k)))
ActiveLinks == SelectSeq([k \in 1..RasterLinks |-> k], LinkActive)

RasterGrid ==
    [size   |-> [node |-> RasterNodes, link |-> RasterLinks,
                 cell |-> Len(CoreNodes), face |-> Len(ActiveLinks),
                 patch |-> (RasterRows - 1) * (RasterCols - 1)],
     status |-> [node |-> [k \in 1..RasterNodes |->
                              IF OnEdge(NodeRow(k), NodeCol(k)) THEN 1 ELSE 0],
                 link |-> [k \in 1..RasterLinks |-> IF LinkActive(k) THEN 0 ELSE 4]],
     x      |-> [node |-> [k \in 1..RasterNodes |-> Num(NodeCol(k))],
                 link |-> [k \in 1..RasterLinks |-> LinkX(k)],
                 cell |-> [j \in 1..Len(CoreNodes) |-> Num(NodeCol(CoreNodes[j]))],
                 face |-> [j \in 1..Len(ActiveLinks) |-> LinkX(ActiveLinks[j])]],
     y      |-> [node |-> [k \in 1..RasterNodes |-> Num(NodeRow(k))],
                 link |-> [k \in 1..RasterLinks |-> LinkY(k)],
                 cell |-> [j \in 1..Len(CoreNodes) |-> Num(NodeRow(CoreNodes[j]))],
                 face |-> [j \in 1..Len(ActiveLinks) |-> LinkY(ActiveLinks[j])]]]

\* grid.size(at)
Size(g, at) == g.size[at]

-----------------------------------------------------------------------------
(* Status filters: None, one status code, or an iterable of status codes.  *)

None == [tag |-> "None", codes |-> <<>>]
Value(c) == [tag |-> "value", codes |-> <<c>>]
Iterable(cs) == [tag |-> "iterable", codes |-> cs]

\* Slip: where = (status_values == s), the last code wins.
SetWhereAssign(where, status_values, s) ==
    [i \in 1..Len(where) |-> status_values[i] = s]

\* where[status_values == s] = True
SetWhere(where, status_values, s) ==
    [i \in 1..Len(where) |-> where[i] \/ status_values[i] = s]

RECURSIVE ForEachStatus(_, _, _)
ForEachStatus(where, status_values, codes) ==
    IF codes = <<>> THEN where
    ELSE ForEachStatus(SetWhere(where, status_values, Head(codes)),
                       status_values, Tail(codes))

WhereToAddValues(g, at, status) ==
    IF at \notin {"link", "node"} /\ status # None
    THEN [raised |-> TRUE, where |-> <<>>]
    ELSE IF status = None
    THEN [raised |-> FALSE, where |-> AllTrue(Size(g, at))]
    ELSE IF status.tag = "iterable"
    THEN [raised |-> FALSE,
          where |-> ForEachStatus(AllFalse(Size(g, at)), g.status[at], status.codes)]
    ELSE [raised |-> FALSE,
          where |-> SetWhere(AllFalse(Size(g, at)), g.status[at], status.codes[1])]

-----------------------------------------------------------------------------
(* The field store.                                                         *)

Key(at, name) == <<at, name>>

\* Slip: grid.add_zeros(at, name) without the membership test.
CreateFieldAlways(g, st, name, at) ==
    [k \in DOMAIN st \cup {Key(at, name)} |->
        IF k = Key(at, name) THEN Zeros(Size(g, at)) ELSE st[k]]

CreateMissingField(g, st, name, at) ==
    IF Key(at, name) \in DOMAIN st THEN st
    ELSE [k \in DOMAIN st \cup {Key(at, name)} |->
            IF k = Key(at, name) THEN Zeros(Size(g, at)) ELSE st[k]]

\* Slip: grid[at][name][:] = values
AssignAll(st, name, at, values) ==
    [st EXCEPT ![Key(at, name)] = values]

\* grid[at][name][:] += values
AddAll(st, name, at, values) ==
    [st EXCEPT ![Key(at, name)] =
        [i \in 1..Len(@) |-> RAdd(@[i], values[i])]]

\* grid[at][name][where] += values[where]
AddWhere(st, name, at, where, values) ==
    [st EXCEPT ![Key(at, name)] =
        [i \in 1..Len(@) |-> IF where[i] THEN RAdd(@[i], values[i]) ELSE @[i]]]

\* values = np.zeros(n); values[where] += samples (the k-th sample at the k-th True position)
Scatter(where, samples) ==
    [i \in 1..Len(where) |->
        IF where[i] THEN RAdd(Zero, samples[Rank(where, i)]) ELSE Zero]

\* values = np.zeros(n); values[where] += constant
Broadcast(where, c) ==
    [i \in 1..Len(where) |-> IF where[i] THEN RAdd(Zero, c) ELSE Zero]

-----------------------------------------------------------------------------
(* What a call hands back.                                                  *)

NdArray(values) == [type |-> "ndarray", values |-> values]
FunctionObject == [type |-> "function", values |-> <<>>]
Nothing == [type |-> "nothing", values |-> <<>>]

Returned(st, ret) == [raised |-> FALSE, store |-> st, ret |-> ret]
Raised(st) == [raised |-> TRUE, store |-> st, ret |-> Nothing]

-----------------------------------------------------------------------------
(* The generators.                                                          *)

\* samples is what np.random.uniform(size=np.sum(where), **kwargs) drew.
RandomUniform(g, st, name, at, status, samples) ==
    LET w == WhereToAddValues(g, at, status) IN
    IF w.raised THEN Raised(st)
    ELSE LET st1 == CreateMissingField(g, st, name, at)
             values == Scatter(w.where, samples)
         IN  Returned(AddAll(st1, name, at, values), NdArray(values))

\* samples is what np.random.normal(size=np.sum(where), **kwargs) drew.
RandomNormal(g, st, name, at, status, samples) ==
    LET w == WhereToAddValues(g, at, status) IN
    IF w.raised THEN Raised(st)
    ELSE LET st1 == CreateMissingField(g, st, name, at)
             values == Scatter(w.where, samples)
         IN  Returned(AddAll(st1, name, at, values), NdArray(values))

Constant(g, st, name, at, status, c) ==
    LET w == WhereToAddValues(g, at, status) IN
    IF w.raised THEN Raised(st)
    ELSE LET st1 == CreateMissingField(g, st, name, at)
             values == Broadcast(w.where, c)
         IN  Returned(AddAll(st1, name, at, values), NdArray(values))

\* Slip: the y term added instead of subtracted.
PlaneFunctionSignSlip(g, at, point, normal) ==
    IF IsCloseZero(normal[3]) THEN [raised |-> TRUE, values |-> <<>>]
    ELSE IF at \notin {"node", "link", "cell", "face"}
    THEN [raised |-> TRUE, values |-> <<>>]
    ELSE LET x == g.x[at]
             y == g.y[at]
             constant == RAdd(RAdd(RMul(point[1], normal[1]),
                                   RMul(point[2], normal[2])),
                              RMul(point[3], normal[3]))
         IN  [raised |-> FALSE,
              values |-> [i \in 1..Len(x) |->
                  RDiv(RAdd(RSub(constant,
                                 RMul(normal[1], RSub(x[i], point[1]))),
                            RMul(normal[2], RSub(y[i], point[2]))),
                       normal[3])]]

PlaneFunction(g, at, point, normal) ==
    IF IsCloseZero(normal[3]) THEN [raised |-> TRUE, values |-> <<>>]
    ELSE IF at \notin {"node", "link", "cell", "face"}
    THEN [raised |-> TRUE, values |-> <<>>]
    ELSE LET x == g.x[at]
             y == g.y[at]
             constant == RAdd(RAdd(RMul(point[1], normal[1]),
                                   RMul(point[2], normal[2])),
                              RMul(point[3], normal[3]))
         IN  [raised |-> FALSE,
              values |-> [i \in 1..Len(x) |->
                  RDiv(RSub(RSub(constant,
                                 RMul(normal[1], RSub(x[i], point[1]))),
                            RMul(normal[2], RSub(y[i], point[2]))),
                       normal[3])]]

\* Slip: the degeneracy test reads normal[0].
PlaneChecksFirstComponent(g, st, name, at, status, point, normal) ==
    IF IsCloseZero(normal[1]) THEN Raised(st)
    ELSE LET w == WhereToAddValues(g, at, status) IN
    IF w.raised THEN Raised(st)
    ELSE LET st1 == CreateMissingField(g, st, name, at)
             pf == PlaneFunction(g, at, point, normal)
         IN  IF pf.raised THEN Raised(st1)
             ELSE Returned(AddWhere(st1, name, at, w.where, pf.values),
                           FunctionObject)

Plane(g, st, name, at, status, point, normal) ==
    IF IsCloseZero(normal[3]) THEN Raised(st)
    ELSE LET w == WhereToAddValues(g, at, status) IN
    IF w.raised THEN Raised(st)
    ELSE LET st1 == CreateMissingField(g, st, name, at)
             pf == PlaneFunction(g, at, point, normal)
         IN  IF pf.raised THEN Raised(st1)
             ELSE Returned(AddWhere(st1, name, at, w.where, pf.values),
                           FunctionObject)

\* field = np.ones(where.shape); for params in planes: field *= _plane_function(...)
RECURSIVE MultiplyLoop(_, _, _, _)
MultiplyLoop(g, at, field, planes) ==
    IF planes = <<>> THEN [raised |-> FALSE, values |-> field]
    ELSE LET pf == PlaneFunction(g, at, Head(planes)[1], Head(planes)[2]) IN
         IF pf.raised THEN [raised |-> TRUE, values |-> <<>>]
         ELSE MultiplyLoop(g, at,
                  [i \in 1..Len(field) |-> RMul(field[i], pf.values[i])],
                  Tail(planes))

MultipyPlanes(g, st, name, at, status, planes) ==
    LET w == WhereToAddValues(g, at, status) IN
    IF w.raised THEN Raised(st)
    ELSE LET st1 == CreateMissingField(g, st, name, at)
             loop == MultiplyLoop(g, at, Ones(Len(w.where)), planes)
         IN  IF loop.raised THEN Raised(st1)
             ELSE Returned(AddWhere(st1, name, at, w.where, loop.values),
                           NdArray(loop.values))

-----------------------------------------------------------------------------
(* History kept for the properties.                                         *)

NoCall ==
    [op |-> "none", name |-> "", at |-> "", status |-> None,
     c |-> Zero, samples |-> <<>>, planes |-> <<>>]

NoResult == [raised |-> FALSE, ret |-> Nothing]

NoPrior == [valid |-> FALSE, call |-> NoCall, before |-> <<>>]

\* Element i is selected by the status filter: no filter, or its status is one of the codes.
InMask(g, at, status, i) ==
    \/ status = None
    \/ \E k \in 1..Len(status.codes) : g.status[at][i] = status.codes[k]

\* The values a successful call computed, one per element it selected
\* (unselected elements: whatever the evaluation gives there, never added).
Computed(g, cl) ==
    CASE cl.op = "constant" -> [i \in 1..Size(g, cl.at) |-> cl.c]
      [] cl.op \in {"random_uniform", "random_normal"} ->
            [i \in 1..Size(g, cl.at) |->
                IF InMask(g, cl.at, cl.status, i)
                THEN cl.samples[Cardinality({j \in 1..i : InMask(g, cl.at, cl.status, j)})]
                ELSE Zero]
      [] cl.op = "plane" ->
            PlaneFunction(g, cl.at, cl.planes[1][1], cl.planes[1][2]).values
      [] cl.op = "multipy_planes" ->
            MultiplyLoop(g, cl.at, Ones(Size(g, cl.at)), cl.planes).values

\* The running sum, per field and element, of the values computed by the
\* successful calls whose mask holds the element.
Accumulate(g, ex, cl) ==
    LET key == Key(cl.at, cl.name)
        old == IF key \in DOMAIN ex THEN ex[key] ELSE Zeros(Size(g, cl.at))
        new == Computed(g, cl)
    IN  [k \in DOMAIN ex \cup {key} |->
            IF k # key THEN ex[k]
            ELSE [i \in 1..Size(g, cl.at) |->
                    IF InMask(g, cl.at, cl.status, i)
                    THEN RAdd(old[i], new[i])
                    ELSE old[i]]]

-----------------------------------------------------------------------------------------------------------------------------------------------------
(* Inputs.                                                                  *)

Names == {"soil__depth"}

\* The kinds the mixed generator calls are made on: with status and
\* coordinates (node), with coordinates only (cell), with neither (patch).
CallKinds == {"node", "cell", "patch"}

Filters == {None, Value(0), Iterable(<<1, 4>>)}

Consts == {Num(2), Rat(-1, 2)}

UniformSamples == {Rat(1, 4), Rat(3, 4)}

NormalSamples == {Num(-1), Rat(1, 2)}

Origin == <<Zero, Zero, Zero>>

Horizontal == <<Origin, <<Zero, Zero, One>>>>
Sloped == <<Origin, <<Num(-1), Num(-1), One>>>>
Through == <<<<One, Num(2), Num(3)>>, <<One, Zero, Num(2)>>>>
Vertical == <<Origin, <<One, One, Zero>>>>
Null == <<Origin, <<Zero, Zero, Zero>>>>

PlaneChoices == {Through, Vertical}

PlaneLists == {<<>>, <<Sloped, Through>>, <<Through, Vertical>>}

\* Inputs of the runs that exercise the mask selector alone.
MaskFilters ==
    {None} \cup {Value(c) : c \in {0, 1, 4, 7}}
           \cup {Iterable(cs) : cs \in {<<>>, <<0>>, <<1>>, <<4>>, <<7>>,
                                         <<0, 1>>, <<1, 4>>, <<4, 7, 0>>}}

\* Inputs of the runs on the raster grid that exercise the plane functions.
RasterKinds == {"node", "link", "patch"}

RasterFilters == {None, Value(0)}

RasterPlanes == {Horizontal, Sloped, Through, Vertical, Null}

RasterPlaneLists == {<<Horizontal>>, <<Vertical>>, <<Sloped, Null>>}

-----------------------------------------------------------------------------
(* One action per call.                                                     *)

Generators ==
    {"random_uniform", "random_normal", "plane", "multipy_planes", "constant"}

Finish(cl, out) ==
    /\ ncalls < MaxCalls
    /\ ncalls' = ncalls + 1
    /\ before' = store
    /\ store' = out.store
    /\ call' = cl
    /\ result' = [raised |-> out.raised, ret |-> out.ret]
    /\ expected' = IF out.raised \/ cl.op \notin Generators THEN expected
                    ELSE Accumulate(grid, expected, cl)
    /\ prior' = IF cl.op = "constant" /\ call.op = "constant" /\ ~result.raised
                 THEN [valid |-> TRUE, call |-> call, before |-> before]
                 ELSE NoPrior
    /\ UNCHANGED grid

\* The sample vectors a random call can draw: one sample per selected element.
Draws(at, status, pool) ==
    LET w == WhereToAddValues(grid, at, status) IN
    IF w.raised THEN {<<>>} ELSE [1..CountTrue(w.where) -> pool]

RandomUniformCall ==
    \E name \in Names, at \in CallKinds, status \in Filters :
        \E samples \in Draws(at, status, UniformSamples) :
            Finish([NoCall EXCEPT !.op = "random_uniform", !.name = name, !.at = at,
                                  !.status = status, !.samples = samples],
                   RandomUniform(grid, store, name, at, status, samples))

RandomNormalCall ==
    \E name \in Names, at \in CallKinds, status \in Filters :
        \E samples \in Draws(at, status, NormalSamples) :
            Finish([NoCall EXCEPT !.op = "random_normal", !.name = name, !.at = at,
                                  !.status = status, !.samples = samples],
                   RandomNormal(grid, store, name, at, status, samples))

PlaneOn(kinds, filters, choices) ==
    \E name \in Names, at \in kinds, status \in filters, pl \in choices :
        Finish([NoCall EXCEPT !.op = "plane", !.name = name, !.at = at,
                              !.status = status, !.planes = <<pl>>],
               Plane(grid, store, name, at, status, pl[1], pl[2]))

MultipyPlanesOn(kinds, filters, lists) ==
    \E name \in Names, at \in kinds, status \in filters, planes \in lists :
        Finish([NoCall EXCEPT !.op = "multipy_planes", !.name = name, !.at = at,
                              !.status = status, !.planes = planes],
               MultipyPlanes(grid, store, name, at, status, planes))

PlaneCall == PlaneOn(CallKinds, Filters, PlaneChoices)

MultipyPlanesCall == MultipyPlanesOn(CallKinds, Filters, PlaneLists)

ConstantOn(kinds, filters, consts) ==
    \E name \in Names, at \in kinds, status \in filters, c \in consts :
        Finish([NoCall EXCEPT !.op = "constant", !.name = name, !.at = at,
                              !.status = status, !.c = c],
               Constant(grid, store, name, at, status, c))

ConstantCall == ConstantOn(CallKinds, Filters, Consts)

ConstantAnywhereCall == ConstantOn(Kinds, Filters, Consts \cup {Num(10)})

\* The helpers called on their own: they read the grid and touch no field.
WhereToAddValuesCall ==
    \E at \in Kinds, status \in MaskFilters :
        LET w == WhereToAddValues(grid, at, status) IN
        Finish([NoCall EXCEPT !.op = "_where_to_add_values", !.at = at,
                              !.status = status],
               IF w.raised THEN Raised(store)
               ELSE Returned(store, [type |-> "mask", values |-> w.where]))

PlaneFunctionCall ==
    \E at \in Kinds, pl \in RasterPlanes :
        LET pf == PlaneFunction(grid, at, pl[1], pl[2]) IN
        Finish([NoCall EXCEPT !.op = "_plane_function", !.at = at,
                              !.planes = <<pl>>],
               IF pf.raised THEN Raised(store)
               ELSE Returned(store, NdArray(pf.values)))

RasterPlaneCall == PlaneOn(RasterKinds, RasterFilters, RasterPlanes)

RasterMultipyPlanesCall == MultipyPlanesOn(RasterKinds, RasterFilters, RasterPlaneLists)

-----------------------------------------------------------------------------
(* Specifications.                                                          *)

Fresh ==
    /\ store = <<>>
    /\ before = <<>>
    /\ call = NoCall
    /\ result = NoResult
    /\ expected = <<>>
    /\ prior = NoPrior
    /\ ncalls = 0

\* The five generators on a small grid without fields.
Init == grid = SmallGrid /\ Fresh

Next ==
    \/ RandomUniformCall
    \/ RandomNormalCall
    \/ PlaneCall
    \/ MultipyPlanesCall
    \/ ConstantCall

Spec == Init /\ [][Next]_vars

\* Constant calls alone, from a grid without fields or with the field a
\* plane call left on it.
StartStores ==
    {<<>>} \cup {Plane(SmallGrid, <<>>, n, at, None, Through[1], Through[2]).store :
                    n \in Names, at \in {"node", "link", "cell"}}

InitConstant ==
    /\ grid = SmallGrid
    /\ store \in StartStores
    /\ before = store
    /\ expected = store
    /\ call = NoCall
    /\ result = NoResult
    /\ prior = NoPrior
    /\ ncalls = 0

NextConstant == ConstantAnywhereCall

SpecConstant == InitConstant /\ [][NextConstant]_vars

\* The mask selector on either grid.
InitMask == grid \in {SmallGrid, RasterGrid} /\ Fresh

NextMask == WhereToAddValuesCall

SpecMask == InitMask /\ [][NextMask]_vars

\* The plane evaluator and the two plane generators on the raster grid.
InitPlanes == grid = RasterGrid /\ Fresh

NextPlanes ==
    \/ PlaneFunctionCall
    \/ RasterPlaneCall
    \/ RasterMultipyPlanesCall

SpecPlanes == InitPlanes /\ [][NextPlanes]_vars

-----------------------------------------------------------------------------
(* Properties.                                                              *)

GeneratorReturned == call.op \in Generators /\ ~result.raised
GeneratorRaised == call.op \in Generators /\ result.raised

LastKey == Key(call.at, call.name)
LastSize == Size(grid, call.at)
Selected(i) == InMask(grid, call.at, call.status, i)

\* The field the last call named, as it was when the call started (zeros if absent).
FieldBefore ==
    IF LastKey \in DOMAIN before THEN before[LastKey] ELSE Zeros(LastSize)

\* C1: a successful generator call returns an array with one entry per
\* element of the kind, zero at every element the status filter does not select.
C1_ReturnIsMaskedArray ==
    GeneratorReturned =>
        /\ result.ret.type = "ndarray"
        /\ Len(result.ret.values) = LastSize
        /\ \A i \in 1..LastSize : ~Selected(i) => result.ret.values[i] = Zero

\* C2: a successful generator call returns the values it added: at every
\* element, returned = field after - field before.
C2_ReturnIsWhatWasAdded ==
    GeneratorReturned =>
        /\ result.ret.type = "ndarray"
        /\ Len(result.ret.values) = LastSize
        /\ \A i \in 1..LastSize :
              result.ret.values[i] = RSub(store[LastKey][i], FieldBefore[i])

\* C3: a generator call that raises leaves the field store as it was: no
\* field created, no value changed.
C3_FailureLeavesStore == GeneratorRaised => store = before

\* C4: every field holds, at every element, the sum of the values computed
\* by the successful calls whose mask selects the element; a call changes
\* nothing outside its mask and nothing in another field.
C4_FieldIsSumOfMaskedValues ==
    /\ DOMAIN expected \subseteq DOMAIN store
    /\ \A k \in DOMAIN store :
          store[k] = IF k \in DOMAIN expected THEN expected[k]
                     ELSE Zeros(Size(grid, k[1]))
    /\ GeneratorReturned =>
          /\ \A k \in DOMAIN before : k # LastKey => store[k] = before[k]
          /\ \A i \in 1..LastSize : ~Selected(i) => store[LastKey][i] = FieldBefore[i]

\* A second call lands on a field that already holds values, inside and
\* outside the second call's mask.
C4_Witness ==
    /\ GeneratorReturned
    /\ LastKey \in DOMAIN before
    /\ \E i \in 1..LastSize : ~Selected(i) /\ before[LastKey][i] # Zero
    /\ \E i \in 1..LastSize :
          Selected(i) /\ before[LastKey][i] # Zero
                      /\ store[LastKey][i] # before[LastKey][i]

\* Two successive successful constant calls on the same field with the same filter.
ConstantTwice ==
    /\ prior.valid
    /\ call.op = "constant" /\ ~result.raised
    /\ prior.call.name = call.name
    /\ prior.call.at = call.at
    /\ prior.call.status = call.status

C6_PlanePassesThroughPoint ==
    (call.op = "_plane_function" /\ ~result.raised) =>
        \A i \in 1..LastSize :
            (grid.x[call.at][i] = call.planes[1][1][1]
                /\ grid.y[call.at][i] = call.planes[1][1][2])
            => result.ret.values[i] = call.planes[1][1][3]

PlaneOps == {"_plane_function", "plane", "multipy_planes"}

SomeNormalFlat ==
    \E k \in 1..Len(call.planes) : call.planes[k][2][3] = Zero

AllNormalsUp ==
    /\ call.planes # <<>>
    /\ \A k \in 1..Len(call.planes) : call.planes[k][2] = <<Zero, Zero, One>>

\* The arguments besides the normals are acceptable: the kind has
\* coordinates, and a status filter comes only with node or link.
OtherwiseValid ==
    /\ call.at \in {"node", "link", "cell", "face"}
    /\ call.status = None \/ call.at \in {"node", "link"}

\* C7: the plane evaluator, plane and multipy_planes raise when a normal's
\* third component is zero, and succeed for normal (0, 0, 1).
C7_DegenerateNormalRaises ==
    call.op \in PlaneOps =>
        /\ SomeNormalFlat => result.raised
        /\ (AllNormalsUp /\ OtherwiseValid) => ~result.raised

\* multipy_planes raises on (0, 0, 0) in second place, on a grid where an
\* earlier plane call succeeded.
C7_Witness ==
    /\ call.op = "multipy_planes"
    /\ call.planes = <<Sloped, Null>>
    /\ OtherwiseValid
    /\ result.raised
    /\ before # <<>>

\* The plane value of the claim at element i of the last call's kind.
PlaneValue(i) ==
    LET point == call.planes[1][1]
        normal == call.planes[1][2]
        dot == RAdd(RAdd(RMul(point[1], normal[1]), RMul(point[2], normal[2])),
                    RMul(point[3], normal[3]))
    IN  RDiv(RSub(RSub(dot, RMul(normal[1], RSub(grid.x[call.at][i], point[1]))),
                  RMul(normal[2], RSub(grid.y[call.at][i], point[2]))),
             normal[3])

PlaneReturned == call.op = "plane" /\ ~result.raised

\* The docstring call: all nodes, point (0, 0, 0), normal (-1, -1, 1), no field yet.
DocstringPlane ==
    /\ PlaneReturned
    /\ call.at = "node" /\ call.status = None /\ call.planes = <<Sloped>>
    /\ LastKey \notin DOMAIN before

RECURSIVE ProductAt(_, _)
ProductAt(planes, i) ==
    IF planes = <<>> THEN One
    ELSE RMul(PlaneFunction(grid, call.at, planes[1][1], planes[1][2]).values[i],
              ProductAt(Tail(planes), i))

\* C9: the array multipy_planes returns holds the product of the plane
\* values at every selected element (1 when no plane is given) and 0 at
\* every other element.
C9_ProductInsideZeroOutside ==
    (call.op = "multipy_planes" /\ ~result.raised) =>
        /\ result.ret.type = "ndarray"
        /\ \A i \in 1..LastSize :
              result.ret.values[i] =
                  IF Selected(i) THEN ProductAt(call.planes, i) ELSE Zero

MaskReturned == call.op = "_where_to_add_values" /\ ~result.raised

\* C10: for node and link the mask selector returns a mask true exactly
\* where the element's status is one of the codes (everywhere without a
\* filter), and a single code gives the mask of the one-element collection.
C10_MaskSelectsMatchingStatus ==
    (call.op = "_where_to_add_values" /\ call.at \in {"node", "link"}) =>
        /\ ~result.raised
        /\ Len(result.ret.values) = LastSize
        /\ \A i \in 1..LastSize :
              result.ret.values[i] <=>
                  (call.status = None
                     \/ \E k \in 1..Len(call.status.codes) :
                           grid.status[call.at][i] = call.status.codes[k])
        /\ call.status.tag = "value" =>
              result.ret.values =
                  WhereToAddValues(grid, call.at, Iterable(call.status.codes)).where

\* Several codes on the raster links: some links selected, some not.
C10_Witness ==
    /\ MaskReturned
    /\ call.at = "link"
    /\ call.status = Iterable(<<1, 4>>)
    /\ grid = RasterGrid
    /\ \E i, j \in 1..LastSize : result.ret.values[i] /\ ~result.raised
                                   /\ ~result.ret.values[j]

====
